---- MODULE Spec2Model ----
(***************************************************************************)
(* LMTask.build_model of funasr_local/tasks/lm.py as a state machine.      *)
(*                                                                         *)
(* One call of build_model runs five steps in program order: vocabulary    *)
(* resolution (lines 183-196), variant resolution (199), variant           *)
(* construction (200), container construction (204), and the optional      *)
(* initialization followed by the return (207-211).  An exception raised   *)
(* by a step ends the call.  The caller may call build_model again on the  *)
(* same argparse.Namespace object.                                         *)
(*                                                                         *)
(* Values.  A token and a line of the vocabulary file are sequences of     *)
(* one-character strings.  args.token_list is a record                     *)
(* [kind, path, items]: kind is the Python type of the value, path is      *)
(* used by kind "str" and items by the kinds "list" and "tuple".           *)
(* A keyword mapping (lm_conf, model_conf, the keywords of a call) is a    *)
(* set of <<key, value>> pairs with at most one pair per key.              *)
(***************************************************************************)
EXTENDS Integers, Sequences, FiniteSets, TLC

VARIABLES
    args,        \* the argparse.Namespace handed to build_model
    fs,          \* the content of the vocabulary file, or Missing
    pc,          \* position of the current call of build_model
    token_list,  \* local token_list
    vocab_size,  \* local vocab_size
    lm_class,    \* local lm_class
    lm,          \* local lm
    model,       \* local model
    retval,      \* what the last call returned to its caller
    error,       \* the exception that ended the current call, or NoError
    reads,       \* file reads done by the current call
    steps,       \* steps the current call has executed, with their outcome
    init_calls,  \* calls of initialize() made by the current call
    calls,       \* calls of build_model started so far
    args0,       \* args as it was when the current call started
    first        \* what the first successful call resolved

vars == <<args, fs, pc, token_list, vocab_size, lm_class, lm, model, retval,
          error, reads, steps, init_calls, calls, args0, first>>

----------------------------------------------------------------------------
(* Bounds of the model. *)

\* longest vocabulary file (in lines) and longest in-memory token list
MaxLen == 2

\* calls of build_model on one configuration object
MaxCalls == 2

----------------------------------------------------------------------------
(* Values *)

None == "None"
NoError == "NoError"
Missing == [exists |-> FALSE, lines |-> <<>>]

StrValue(p) == [kind |-> "str", path |-> p, items |-> <<>>]
ListValue(s) == [kind |-> "list", path |-> "", items |-> s]
TupleValue(s) == [kind |-> "tuple", path |-> "", items |-> s]
NoneValue == [kind |-> "NoneType", path |-> "", items |-> <<>>]
IntValue == [kind |-> "int", path |-> "", items |-> <<>>]

NoObj == [cls |-> None, vocab_size |-> 0, conf |-> {}]
NoModel == [cls |-> None, lm |-> NoObj, vocab_size |-> 0, conf |-> {},
            inits |-> <<>>]

Keys(conf) == {p[1] : p \in conf}

SeqsUpTo(S, n) == UNION {[1..k -> S] : k \in 0..n}

----------------------------------------------------------------------------
(* The registry, lines 31-39. *)

lm_choices == [name |-> "lm",
               classes |-> {<<"seq_rnn", "SequentialRNNLM">>,
                            <<"transformer", "TransformerLM">>},
               default |-> "seq_rnn"]

\* ClassChoices.get_class: exact, case-sensitive lookup of a name.
get_class(name) ==
    IF name \in Keys(lm_choices.classes)
    THEN [error |-> NoError,
          class |-> (CHOOSE p \in lm_choices.classes : p[1] = name)[2]]
    ELSE [error |-> "UnknownVariantError", class |-> None]

\* Keywords (besides the ones build_model passes itself) that the
\* constructors bind; any other keyword is rejected at construction.
CtorKeywords(cls) ==
    IF cls = "SequentialRNNLM" THEN {"unit", "nlayers"}
    ELSE IF cls = "TransformerLM" THEN {"unit", "layer"}
    ELSE IF cls = "LanguageModel" THEN {"ignore_id"}
    ELSE {}

\* The methods funasr_local.torch_utils.initialize knows (lines 74-81).
InitMethods == {"chainer", "xavier_uniform", "xavier_normal",
                "kaiming_uniform", "kaiming_normal"}

\* initialize(model, init): mutates the model's parameters in place.
initialize(m, init) ==
    IF init \in InitMethods
    THEN [error |-> NoError, model |-> [m EXCEPT !.inits = Append(@, init)],
          invoked |-> TRUE]
    ELSE [error |-> "InvalidConfigError", model |-> m, invoked |-> TRUE]

----------------------------------------------------------------------------
(* Vocabulary resolution, lines 183-195. *)

\* what str.rstrip() removes
Whitespace == {" ", "\t", "\n", "\r"}

RECURSIVE rstrip(_)
rstrip(line) ==
    IF Len(line) > 0 /\ line[Len(line)] \in Whitespace
    THEN rstrip(SubSeq(line, 1, Len(line) - 1))
    ELSE line

RECURSIVE Dedup(_)
Dedup(t) ==
    IF t = <<>> THEN <<>>
    ELSE LET h == Dedup(SubSeq(t, 1, Len(t) - 1)) IN
         IF \E i \in 1..Len(h) : h[i] = t[Len(t)] THEN h
         ELSE Append(h, t[Len(t)])

\* Variant of ReadLines that keeps the first occurrence of a token only.
ReadLines_dedup(file) ==
    Dedup([i \in 1..Len(file.lines) |-> rstrip(file.lines[i])])

\* [line.rstrip() for line in f]
ReadLines(file) == [i \in 1..Len(file.lines) |-> rstrip(file.lines[i])]

\* A raise inside lines 183-193: nothing was assigned.
VocabFailure(a, err) ==
    [error |-> err, token_list |-> <<>>, read |-> FALSE, args |-> a]

\* Lines 184-189: open() fails on a missing file; otherwise the lines are
\* read and args.token_list is overwritten with a copy of them.
VocabFromFile(a, file) ==
    IF ~file.exists THEN VocabFailure(a, "FileNotFoundError")
    ELSE [error |-> NoError, token_list |-> ReadLines(file), read |-> TRUE,
          args |-> [a EXCEPT !.token_list = ListValue(ReadLines(file))]]

\* Line 191, args.token_list.copy(): a list has the method, a tuple has
\* not (AttributeError).
VocabFromSequence(a) ==
    IF a.token_list.kind = "list"
    THEN [error |-> NoError, token_list |-> a.token_list.items,
          read |-> FALSE, args |-> a]
    ELSE VocabFailure(a, "AttributeError")

\* Variant of ResolveVocabulary that validates the selector before it opens
\* the file.
ResolveVocabulary_selectorFirst(a, file) ==
    IF a.lm \notin Keys(lm_choices.classes)
    THEN VocabFailure(a, "UnknownVariantError")
    ELSE IF a.token_list.kind = "str" THEN VocabFromFile(a, file)
    ELSE IF a.token_list.kind \in {"tuple", "list"} THEN VocabFromSequence(a)
    ELSE VocabFailure(a, "RuntimeError")

\* Variant of ResolveVocabulary that takes a missing token_list (None) for
\* an empty vocabulary.
ResolveVocabulary_noneAsEmpty(a, file) ==
    IF a.token_list.kind = "str" THEN VocabFromFile(a, file)
    ELSE IF a.token_list.kind \in {"tuple", "list"} THEN VocabFromSequence(a)
    ELSE IF a.token_list.kind = "NoneType"
    THEN [error |-> NoError, token_list |-> <<>>, read |-> FALSE, args |-> a]
    ELSE VocabFailure(a, "RuntimeError")

\* Variant of ResolveVocabulary without line 189: args.token_list keeps
\* the path.
ResolveVocabulary_noRewrite(a, file) ==
    IF a.token_list.kind = "str"
    THEN [VocabFromFile(a, file) EXCEPT !.args = a]
    ELSE IF a.token_list.kind \in {"tuple", "list"} THEN VocabFromSequence(a)
    ELSE VocabFailure(a, "RuntimeError")

\* Lines 183-193 on the namespace a and the file its path names.  Yields the
\* exception raised (or NoError), the local token_list, whether the file
\* was read, and the namespace as the step leaves it.
ResolveVocabulary(a, file) ==
    IF a.token_list.kind = "str" THEN VocabFromFile(a, file)
    ELSE IF a.token_list.kind \in {"tuple", "list"} THEN VocabFromSequence(a)
    ELSE VocabFailure(a, "RuntimeError")

----------------------------------------------------------------------------
(* Construction, lines 200 and 204. *)

\* A call ctor(<explicit keywords>, **conf): Python raises TypeError when a
\* keyword is given twice, before the constructor runs; the constructor
\* raises TypeError for a keyword it does not bind.
CallKw(cls, explicit, conf) ==
    IF Keys(explicit) \cap Keys(conf) # {}
    THEN [error |-> "TypeError", kwargs |-> {}]
    ELSE IF ~(Keys(conf) \subseteq CtorKeywords(cls))
    THEN [error |-> "TypeError", kwargs |-> {}]
    ELSE [error |-> NoError, kwargs |-> explicit \cup conf]

Arg(kwargs, key) == (CHOOSE p \in kwargs : p[1] = key)[2]

\* Variant of BuildLM that merges the keywords into one mapping first, so
\* that a key of lm_conf replaces the value build_model passes.
BuildLM_lastWins(cls, n, conf) ==
    LET merged == {p \in {<<"vocab_size", n>>} : p[1] \notin Keys(conf)} \cup conf
        c == CallKw(cls, {}, {p \in merged : p[1] # "vocab_size"})
    IN
    IF c.error # NoError THEN [error |-> c.error, obj |-> NoObj]
    ELSE [error |-> NoError,
          obj |-> [cls |-> cls, vocab_size |-> Arg(merged, "vocab_size"),
                   conf |-> conf]]

\* lm = lm_class(vocab_size=vocab_size, **args.lm_conf)
BuildLM(cls, n, conf) ==
    LET c == CallKw(cls, {<<"vocab_size", n>>}, conf) IN
    IF c.error # NoError THEN [error |-> c.error, obj |-> NoObj]
    ELSE [error |-> NoError,
          obj |-> [cls |-> cls, vocab_size |-> Arg(c.kwargs, "vocab_size"),
                   conf |-> conf]]

\* model = LanguageModel(lm=lm, vocab_size=vocab_size, **args.model_conf)
BuildContainer(l, n, conf) ==
    \* the keyword lm carries the object l; 0 stands for it among the values
    LET c == CallKw("LanguageModel", {<<"lm", 0>>, <<"vocab_size", n>>}, conf) IN
    IF c.error # NoError THEN [error |-> c.error, obj |-> NoModel]
    ELSE [error |-> NoError,
          obj |-> [cls |-> "LanguageModel", lm |-> l,
                   vocab_size |-> Arg(c.kwargs, "vocab_size"),
                   conf |-> conf, inits |-> <<>>]]

\* Variant of Initialize that tests the truth value of args.init instead
\* of comparing it with None.
Initialize_truthy(m, init) ==
    IF init \notin {None, ""} THEN initialize(m, init)
    ELSE [error |-> NoError, model |-> m, invoked |-> FALSE]

\* Lines 207-208.
Initialize(m, init) ==
    IF init # None THEN initialize(m, init)
    ELSE [error |-> NoError, model |-> m, invoked |-> FALSE]

----------------------------------------------------------------------------
(* Inputs *)

\* the one path a configuration names
VocabPath == "tokens.txt"

\* what a line of the vocabulary file holds before its terminator
LineBodies == {<<"a">>, <<"a", " ">>, <<"a", "\t">>, <<" ", "a", " ", "b">>}

FileLines == {b \o <<"\n">> : b \in LineBodies}

Files == {[exists |-> TRUE, lines |-> l] : l \in SeqsUpTo(FileLines, MaxLen)}

\* tokens of an in-memory token list
ListTokens == {<<"x">>, <<"x", " ">>}

TokenLists == SeqsUpTo(ListTokens, MaxLen)

TokenListValues ==
    {StrValue(VocabPath), NoneValue, IntValue}
        \cup {ListValue(s) : s \in TokenLists}
        \cup {TupleValue(s) : s \in TokenLists}

Selectors == {"seq_rnn", "transformer", "rnn"}

LmConfs == {{}, {<<"vocab_size", 99>>}, {<<"nlayers", 2>>}, {<<"no_such_option", 1>>}}

ModelConfs == {{}, {<<"vocab_size", 99>>}, {<<"lm", 1>>}, {<<"ignore_id", 0>>}}

Inits == {None, "", "chainer", "xavier_uniform", "orthogonal"}

\* The file matters only to a configuration that names it; the others run
\* against one existing file.
FilesFor(tl) ==
    IF tl.kind = "str" THEN Files \cup {Missing}
    ELSE {[exists |-> TRUE, lines |-> <<>>]}

NoArgs == [token_list |-> NoneValue, lm |-> None, lm_conf |-> {},
           model_conf |-> {}, init |-> None]
NoFirst == [call |-> 0, source |-> None, args |-> NoArgs, lm_class |-> None,
            vocab_size |-> 0]

----------------------------------------------------------------------------
(* The state machine *)

StepOrder == <<"vocab", "resolve", "lm", "model", "init">>

Init ==
    /\ \E tl \in TokenListValues, sel \in Selectors, lc \in LmConfs,
          mc \in ModelConfs, i \in Inits :
          /\ args = [token_list |-> tl, lm |-> sel, lm_conf |-> lc,
                     model_conf |-> mc, init |-> i]
          /\ fs \in FilesFor(tl)
    /\ pc = "idle"
    /\ token_list = <<>>
    /\ vocab_size = 0
    /\ lm_class = None
    /\ lm = NoObj
    /\ model = NoModel
    /\ retval = NoModel
    /\ error = NoError
    /\ reads = 0
    /\ steps = <<>>
    /\ init_calls = 0
    /\ calls = 0
    /\ args0 = args
    /\ first = NoFirst

\* The caller calls build_model(args), line 181.
Call ==
    /\ pc \in {"idle", "done", "failed"}
    /\ calls < MaxCalls
    /\ pc' = "vocab"
    /\ calls' = calls + 1
    /\ args0' = args
    /\ token_list' = <<>>
    /\ vocab_size' = 0
    /\ lm_class' = None
    /\ lm' = NoObj
    /\ model' = NoModel
    /\ retval' = NoModel
    /\ error' = NoError
    /\ reads' = 0
    /\ steps' = <<>>
    /\ init_calls' = 0
    /\ UNCHANGED <<args, fs, first>>

Log(step, err) == Append(steps, [step |-> step, ok |-> (err = NoError)])

\* A step that ended with the exception err (or with none): the call goes
\* on to the step next, or the exception leaves build_model.
Goto(next, err) ==
    /\ error' = err
    /\ pc' = IF err = NoError THEN next ELSE "failed"

\* Lines 183-196.
VocabStep ==
    /\ pc = "vocab"
    /\ LET r == ResolveVocabulary(args, fs) IN
        /\ args' = r.args
        /\ token_list' = r.token_list
        /\ vocab_size' = IF r.error = NoError THEN Len(r.token_list) ELSE vocab_size
        /\ reads' = IF r.read THEN reads + 1 ELSE reads
        /\ steps' = Log("vocab", r.error)
        /\ Goto("resolve", r.error)
    /\ UNCHANGED <<fs, lm_class, lm, model, retval, init_calls, calls, args0,
                   first>>

\* Variant of ResolveStep that puts args back as the caller passed it when
\* the lookup fails.
ResolveStep_rollback ==
    /\ pc = "resolve"
    /\ LET r == get_class(args.lm) IN
        /\ lm_class' = r.class
        /\ steps' = Log("resolve", r.error)
        /\ Goto("lm", r.error)
        /\ args' = IF r.error = NoError THEN args ELSE args0
    /\ UNCHANGED <<fs, token_list, vocab_size, lm, model, retval, reads,
                   init_calls, calls, args0, first>>

\* Line 199.
ResolveStep ==
    /\ pc = "resolve"
    /\ LET r == get_class(args.lm) IN
        /\ lm_class' = r.class
        /\ steps' = Log("resolve", r.error)
        /\ Goto("lm", r.error)
    /\ UNCHANGED <<args, fs, token_list, vocab_size, lm, model, retval, reads,
                   init_calls, calls, args0, first>>

\* Variant of BuildLMStep that catches the constructor's exception and goes
\* on without a variant.
BuildLMStep_swallow ==
    /\ pc = "lm"
    /\ LET r == BuildLM(lm_class, vocab_size, args.lm_conf) IN
        /\ lm' = r.obj
        /\ steps' = Log("lm", r.error)
        /\ Goto("model", NoError)
    /\ UNCHANGED <<args, fs, token_list, vocab_size, lm_class, model, retval,
                   reads, init_calls, calls, args0, first>>

\* Line 200.
BuildLMStep ==
    /\ pc = "lm"
    /\ LET r == BuildLM(lm_class, vocab_size, args.lm_conf) IN
        /\ lm' = r.obj
        /\ steps' = Log("lm", r.error)
        /\ Goto("model", r.error)
    /\ UNCHANGED <<args, fs, token_list, vocab_size, lm_class, model, retval,
                   reads, init_calls, calls, args0, first>>

\* Line 204.
BuildContainerStep ==
    /\ pc = "model"
    /\ LET r == BuildContainer(lm, vocab_size, args.model_conf) IN
        /\ model' = r.obj
        /\ steps' = Log("model", r.error)
        /\ Goto("init", r.error)
    /\ UNCHANGED <<args, fs, token_list, vocab_size, lm_class, lm, retval,
                   reads, init_calls, calls, args0, first>>

\* Lines 206-211.
InitStep ==
    /\ pc = "init"
    /\ LET r == Initialize(model, args.init) IN
        /\ model' = r.model
        /\ steps' = Log("init", r.error)
        /\ Goto("done", r.error)
        /\ retval' = IF r.error = NoError THEN r.model ELSE retval
        /\ init_calls' = IF r.invoked THEN init_calls + 1 ELSE init_calls
        /\ first' = IF r.error = NoError /\ first = NoFirst
                    THEN [call |-> calls, source |-> args0.token_list.kind,
                          args |-> args,
                          lm_class |-> lm_class, vocab_size |-> vocab_size]
                    ELSE first
    /\ UNCHANGED <<args, fs, token_list, vocab_size, lm_class, lm, reads,
                   calls, args0>>

Next ==
    \/ Call
    \/ VocabStep
    \/ ResolveStep
    \/ BuildLMStep
    \/ BuildContainerStep
    \/ InitStep

Spec == Init /\ [][Next]_vars

----------------------------------------------------------------------------
(* Properties *)

Started == calls > 0
Ran(n) == Len(steps) >= n
UnknownSelector == args.lm \notin Keys(lm_choices.classes)
OtherFieldsKept == [args EXCEPT !.token_list = args0.token_list] = args0

\* a line without its line terminator
StripTerminator(line) ==
    IF Len(line) > 0 /\ line[Len(line)] = "\n"
    THEN SubSeq(line, 1, Len(line) - 1)
    ELSE line

RECURSIVE IsPrefix(_, _)
IsPrefix(s, t) ==
    \/ s = <<>>
    \/ /\ Len(s) <= Len(t)
       /\ s[1] = t[1]
       /\ IsPrefix(Tail(s), Tail(t))

\* C1, as stated, in the case it names (token_list is a path to an existing
\* file): when the selector is not a name of the registry, the call fails
\* with the unknown-variant error and has read no vocabulary file at any
\* point before the failure.
C1_NoReadBeforeUnknownVariant ==
    (UnknownSelector /\ args0.token_list.kind = "str" /\ fs.exists
        /\ pc = "failed") =>
        /\ error = "UnknownVariantError"
        /\ reads = 0

\* C1, amended: with a selector that is not a name of the registry the call
\* never gets past variant resolution, constructs neither a variant nor a
\* container and returns no model; it ends with the unknown-variant error
\* exactly when vocabulary resolution succeeded, which comes first: a
\* token_list that is a path to an existing file has been read once and
\* rewritten in args by then, and only a token_list that is not a path
\* guarantees that no file is read.
C1_UnknownVariantAfterVocabulary ==
    UnknownSelector =>
        /\ pc \notin {"lm", "model", "init", "done"}
        /\ lm = NoObj /\ model = NoModel /\ retval = NoModel
        /\ pc = "failed" =>
              /\ error = "UnknownVariantError" <=> steps[1].ok
              /\ error = "UnknownVariantError" <=> Len(steps) = 2
        /\ (pc = "failed" /\ args0.token_list.kind = "str" /\ fs.exists) =>
              /\ error = "UnknownVariantError"
              /\ reads = 1
              /\ args.token_list = ListValue(ReadLines(fs))
        /\ args0.token_list.kind # "str" => reads = 0

C1_Witness ==
    /\ UnknownSelector
    /\ pc = "failed"
    /\ error = "UnknownVariantError"
    /\ args0.token_list.kind = "str"
    /\ reads = 1
    /\ Len(fs.lines) = MaxLen

\* C2: after a successful call on a token_list that is a path to a file of
\* N lines, the vocabulary has N tokens, token i coming from line i (equal
\* tokens keep their own indices), the variant and the container were both
\* given vocab_size = N, and args.token_list is that N-element list.
C2_VocabularyFromFile ==
    (pc = "done" /\ args0.token_list.kind = "str") =>
        LET N == Len(fs.lines) IN
        /\ Len(token_list) = N
        /\ \A i \in 1..N : IsPrefix(token_list[i], fs.lines[i])
        /\ vocab_size = N
        /\ lm.vocab_size = N
        /\ retval.cls = "LanguageModel"
        /\ retval.vocab_size = N
        /\ retval.lm = lm
        /\ args.token_list = ListValue(token_list)
        /\ Len(args.token_list.items) = N

C2_Witness ==
    /\ pc = "done"
    /\ args0.token_list.kind = "str"
    /\ Len(fs.lines) = 2
    /\ token_list[1] = token_list[2]
    /\ retval.vocab_size = 2

\* C3: a token_list that is neither a string nor a list or tuple (None
\* included) ends the call in its first step with the RuntimeError of line
\* 193 (the spec's InvalidConfigError): no file was read, the registry was
\* not consulted, nothing was constructed or returned, args is unchanged.
C3_BadTokenListType ==
    (Started /\ pc # "vocab"
        /\ args0.token_list.kind \notin {"str", "list", "tuple"}) =>
        /\ pc = "failed"
        /\ error = "RuntimeError"
        /\ steps = <<[step |-> "vocab", ok |-> FALSE]>>
        /\ reads = 0
        /\ lm_class = None
        /\ lm = NoObj /\ model = NoModel /\ retval = NoModel
        /\ init_calls = 0
        /\ args = args0

C3_Witness ==
    /\ pc = "failed"
    /\ args0.token_list = NoneValue
    /\ error = "RuntimeError"

\* C4, as stated: for a token_list that is a list or a tuple, vocabulary
\* resolution succeeds without reading a file, the vocabulary is the given
\* sequence and args.token_list still holds the caller's sequence.
C4_SequenceTakenVerbatim ==
    (Started /\ pc # "vocab" /\ args0.token_list.kind \in {"list", "tuple"}) =>
        /\ steps[1].ok
        /\ reads = 0
        /\ token_list = args0.token_list.items
        /\ vocab_size = Len(args0.token_list.items)
        /\ args.token_list = args0.token_list

\* C5: a key of lm_conf or model_conf that build_model also passes itself
\* (vocab_size to the variant; vocab_size or lm to the container) makes the
\* call fail: the constructor call with the doubled keyword raises
\* TypeError and constructs nothing, with neither of the two values, and no
\* model is returned.
C5_KeywordCollisionFails ==
    /\ "vocab_size" \in Keys(args.lm_conf) =>
          /\ lm = NoObj /\ model = NoModel /\ retval = NoModel
          /\ pc \notin {"model", "init", "done"}
          /\ Ran(3) => (pc = "failed" /\ error = "TypeError")
    /\ Keys(args.model_conf) \cap {"vocab_size", "lm"} # {} =>
          /\ model = NoModel /\ retval = NoModel
          /\ pc \notin {"init", "done"}
          /\ Ran(4) => (pc = "failed" /\ error = "TypeError")

C5_Witness ==
    /\ "vocab_size" \in Keys(args.lm_conf)
    /\ pc = "failed"
    /\ error = "TypeError"
    /\ steps[Len(steps)] = [step |-> "lm", ok |-> FALSE]
    /\ vocab_size = MaxLen

\* C6, as stated: every token read from the vocabulary file is its line
\* without the line terminator and otherwise unchanged, spaces and tabs at
\* the end of the line included.
C6_OnlyTerminatorStripped ==
    (Ran(1) /\ steps[1].ok /\ args0.token_list.kind = "str") =>
        /\ Len(token_list) = Len(fs.lines)
        /\ \A i \in 1..Len(fs.lines) :
              token_list[i] = StripTerminator(fs.lines[i])

\* C7: the steps of a call run in the order vocabulary, variant resolution,
\* variant construction, container construction, initialization; a step
\* that fails is the last one the call runs, so initialization never runs
\* on a model whose variant or container was not constructed, and a call
\* that failed returns nothing.
C7_StepsInOrderAndFailFast ==
    /\ Len(steps) <= Len(StepOrder)
    /\ \A i \in 1..Len(steps) : steps[i].step = StepOrder[i]
    /\ \A i \in 1..(Len(steps) - 1) : steps[i].ok
    /\ error # NoError <=> (steps # <<>> /\ ~steps[Len(steps)].ok)
    /\ error # NoError => (pc = "failed" /\ retval = NoModel)
    /\ (Ran(5) \/ init_calls > 0) =>
          (lm # NoObj /\ model.cls = "LanguageModel" /\ model.lm = lm)
    /\ Ran(4) => lm # NoObj
    /\ retval # NoModel => (pc = "done" /\ Ran(5) /\ retval = model)

C7_Witness ==
    /\ pc = "failed"
    /\ steps[Len(steps)] = [step |-> "lm", ok |-> FALSE]
    /\ args.init \in InitMethods
    /\ reads = 1

\* C8, as stated: once the container is constructed, initialize() is
\* called exactly once if config.init is neither None nor the empty string
\* and not at all otherwise, in which case the model is returned
\* uninitialized; an init outside the enumerated set fails the call with
\* InvalidConfigError.
C8_InitSkippedWhenEmpty ==
    /\ init_calls <= 1
    /\ init_calls = 1 => (Ran(5) /\ model.cls = "LanguageModel")
    /\ Ran(5) =>
          /\ init_calls = 1 <=> args.init \notin {None, ""}
          /\ args.init \in {None, ""} =>
                (pc = "done" /\ retval = model /\ retval.inits = <<>>)
          /\ args.init \notin InitMethods \cup {None, ""} =>
                (pc = "failed" /\ error = "InvalidConfigError")

\* C8, amended: once the container is constructed, initialize() is called
\* exactly once if config.init is not None, the empty string included, and
\* not at all if it is None, in which case the model is returned
\* uninitialized; an init outside the enumerated set, the empty string
\* included, fails the call with InvalidConfigError.
C8_InitSkippedOnlyWhenNone ==
    /\ init_calls <= 1
    /\ init_calls = 1 => (Ran(5) /\ model.cls = "LanguageModel")
    /\ Ran(5) =>
          /\ init_calls = 1 <=> args.init # None
          /\ args.init = None =>
                (pc = "done" /\ retval = model /\ retval.inits = <<>>)
          /\ args.init \in InitMethods =>
                (pc = "done" /\ retval = model /\ retval.inits = <<args.init>>)
          /\ args.init \notin InitMethods \cup {None} =>
                (pc = "failed" /\ error = "InvalidConfigError")
    /\ args.init \notin InitMethods \cup {None} => pc # "done"

C8_Witness ==
    /\ args.init = ""
    /\ Ran(5)
    /\ init_calls = 1
    /\ pc = "failed"
    /\ error = "InvalidConfigError"

\* C9: after a call of build_model succeeded on a configuration, whether
\* its token_list was a path or a list, every later call on the same
\* object reads no file, leaves every field of the configuration as that
\* call left it, resolves a vocabulary of the same size and selects the
\* same variant.
C9_ReassemblyIdempotent ==
    first # NoFirst =>
        /\ args = first.args
        /\ args.token_list.kind = "list"
        /\ calls > first.call =>
              /\ reads = 0
              /\ args = args0
              /\ Ran(1) => (steps[1].ok /\ vocab_size = first.vocab_size)
              /\ Ran(2) => (steps[2].ok /\ lm_class = first.lm_class)
              /\ Ran(3) => (steps[3].ok /\ lm.vocab_size = first.vocab_size
                              /\ lm.cls = first.lm_class)

C9_Witness ==
    /\ first.source = "str"
    /\ calls > first.call
    /\ pc = "done"
    /\ retval.vocab_size = MaxLen
    /\ reads = 0

\* C10: a failure does not undo the rewrite of token_list.  When the call
\* fails after vocabulary resolution, a token_list that was a path holds
\* the list read from the file and every other field is unchanged; when
\* the call fails in vocabulary resolution, args is unchanged.
C10_RewriteNotRolledBack ==
    pc = "failed" =>
        /\ Len(steps) = 1 => args = args0
        /\ (Len(steps) > 1 /\ args0.token_list.kind = "str") =>
              /\ args.token_list = ListValue(ReadLines(fs))
              /\ args.token_list # args0.token_list
              /\ OtherFieldsKept
        /\ (Len(steps) > 1 /\ args0.token_list.kind # "str") => args = args0

C10_Witness ==
    /\ pc = "failed"
    /\ args0.token_list.kind = "str"
    /\ steps[Len(steps)] = [step |-> "model", ok |-> FALSE]
    /\ args.token_list.kind = "list"
    /\ Len(args.token_list.items) = MaxLen

====
